---- MODULE Spec2Model ----
(***************************************************************************)
(* Model of Abc_NtkMiterProve (src/base/abci/abcProve.c): the escalating   *)
(* multi-engine miter prover.  The engines (SAT, rewrite, refactor,        *)
(* balance, fraig, BDD collapse, constant check) are external: each call   *)
(* is a nondeterministic choice over the results the adapter may return.   *)
(* One action models one stretch of the function between two engine calls. *)
(***************************************************************************)
EXTENDS Integers, Sequences, FiniteSets, TLC

\* ------------------------------------------------------------- bounds
MaxIters == 2        \* largest nItersMax explored with every combination of the other inputs
DeepIters == 3       \* largest nItersMax explored, with no global limit and no BDD stage
MaxUse == 2          \* largest consumption one engine call reports
NumCi == 2           \* combinational inputs of the network
IntBits == 3         \* modelled width of the C int holding Counter
MaxGarbage == 2      \* an uninitialised int reads as -MaxGarbage..MaxGarbage
MaxNtks == 2         \* network instance addresses the allocator hands out
OptCap == 4          \* the history counters of rewrite/refactor/balance saturate here

\* ------------------------------------------------------------- values
IntMin == -(2 ^ (IntBits - 1))
IntMax == (2 ^ (IntBits - 1)) - 1
IntRange == IntMin .. IntMax
NtkIds == 0 .. (MaxNtks - 1)
Verdicts == {-1, 0, 1}
\* what one engine call may consume: <<conflicts, inspects>>
Use == {<<0, 0>>, <<MaxUse, 0>>, <<0, MaxUse>>}

NullModel == [isNull |-> TRUE, vals |-> <<>>]
Model(v) == [isNull |-> FALSE, vals |-> v]
ZeroModel(n) == Model([i \in 1 .. n |-> 0])
EngineModels(n) == {Model([i \in 1 .. n |-> b]) : b \in {0, 1}}

\* one engine invocation as the history records it: the stage, the limits
\* passed, the totals when it was made, what it returned and what it consumed
Call(kind, limit, inspLimit, ret, confs, insp) ==
    [kind |-> kind, limit |-> limit, inspLimit |-> inspLimit, ret |-> ret,
     confs |-> confs, insp |-> insp]
NoCall == Call("none", 0, 0, -1, 0, 0)

VARIABLES
    pParams,                \* the Prove_Params_t fields the call only reads
    nTotalBacktracksMade,   \* pParams->nTotalBacktracksMade
    nTotalInspectsMade,     \* pParams->nTotalInspectsMade
    pc,                     \* position in Abc_NtkMiterProve
    nIter,                  \* the for-loop index
    RetValue,               \* the local RetValue
    retAssigned,            \* FALSE while RetValue is still uninitialised
    Counter,                \* the local Counter of the rewriting loop
    pNtk,                   \* the local pNtk (an instance address)
    live,                   \* the instances allocated and not deleted
    pModel,                 \* pModel of every instance
    nCi,                    \* Abc_NtkCiNum of the network
    ppNtk,                  \* *ppNtk
    result,                 \* the returned value, once pc = "done"
    hist                    \* history of the call (observation only)

vars == <<pParams, nTotalBacktracksMade, nTotalInspectsMade, pc, nIter, RetValue,
          retAssigned, Counter, pNtk, live, pModel, nCi, ppNtk, result, hist>>

\* ------------------------------------------------------------- helpers
Pow(b, e) == b ^ e

\* the product rounded to the nearest integer in place of truncated
StageLimit_Round(start, multi, i) ==
    (2 * start * Pow(multi[1], i) + Pow(multi[2], i)) \div (2 * Pow(multi[2], i))

\* (int)(start * pow(multi, nIter)) for start >= 0 and multi = num/den >= 0
StageLimit(start, multi, i) == (start * Pow(multi[1], i)) \div Pow(multi[2], i)

\* the conversion of a double to int: out of range it is undefined
CastInt(v) == IF v \in IntRange THEN {v} ELSE IntRange

\* --Counter at INT_MIN is signed overflow, undefined: a build either wraps
\* the value around or traps (the process is aborted inside the call)
Overflows(c) == c = IntMin
Decrement(c) == IF Overflows(c) THEN IntMax ELSE c - 1

\* nTotalInspectLimit ? nTotalInspectLimit - nTotalInspectsMade : 0
InspectLimit(limit, made) == IF limit # 0 THEN limit - made ELSE 0

\* the limit check with > in place of >=
LimitReached_Strict(bt, ins) ==
    \/ pParams.nTotalBacktrackLimit # 0 /\ bt > pParams.nTotalBacktrackLimit
    \/ pParams.nTotalInspectLimit # 0 /\ ins > pParams.nTotalInspectLimit

\* the global resource limit check
LimitReached(bt, ins) ==
    \/ pParams.nTotalBacktrackLimit # 0 /\ bt >= pParams.nTotalBacktrackLimit
    \/ pParams.nTotalInspectLimit # 0 /\ ins >= pParams.nTotalInspectLimit

\* !fUseRewriting && !fUseFraiging
SatOnlyMode == ~pParams.fUseRewriting /\ ~pParams.fUseFraiging

\* the first stage limit in place of the last-resort limit
LastLimit_Stage == pParams.nMiteringLimitStart

\* the conflict limit of the SAT-only attempt and of the final attempt
LastLimit == pParams.nMiteringLimitLast

\* the allocator: a new instance gets an address that is not in use
NewNtk == CHOOSE n \in NtkIds \ live : \A m \in NtkIds \ live : n <= m

\* = in place of +=, and -= in place of +=
AddUse_Assign(total, used) == used
AddUse_Sub(total, used) == total - used

\* pParams->nTotal...Made += consumption
AddUse(total, used) == total + used

\* the model is assigned for the wrong verdict
NeedsModel_Unsat(ret, m) == ret = 1 /\ m.isNull

\* RetValue == 0 && pNtk->pModel == NULL
NeedsModel(ret, m) == ret = 0 /\ m.isNull

\* ------------------------------------------------------------- history
Bump(x) == IF x < OptCap THEN x + 1 ELSE OptCap

InLoop(c) == c.kind \in {"sat", "fraig"}

\* an engine call c was made with the totals at bt, ins
NoteCall(c, bt, ins) ==
    [hist EXCEPT
        !.last = c,
        !.bt0 = bt,
        !.ins0 = ins,
        !.nSat = IF c.kind \in {"satonly", "sat", "final"} THEN @ + 1 ELSE @,
        !.nFraig = IF c.kind = "fraig" THEN @ + 1 ELSE @,
        !.nBdd = IF c.kind = "bdd" THEN @ + 1 ELSE @,
        !.usedConfs = @ + c.confs,
        !.usedInsp = @ + c.insp,
        !.incConfs = IF InLoop(c) /\ c.ret < 0 THEN @ + c.confs ELSE @,
        !.incInsp = IF InLoop(c) /\ c.ret < 0 THEN @ + c.insp ELSE @,
        !.satVerdict = IF c.kind = "sat" /\ c.ret >= 0 THEN c.ret ELSE @,
        !.fraigVerdict = IF c.kind = "fraig" /\ c.ret >= 0 THEN c.ret ELSE @,
        !.nFinal = IF c.kind = "final" THEN @ + 1 ELSE @,
        !.callIter = nIter,
        !.lastCheck = -1]

\* Abc_NtkCollapse was called on ntk and gave res: "null" (no network),
\* "zero" (one node, the constant zero) or "other"
NoteBdd(h, ntk, res) == [h EXCEPT !.bddNtk = ntk, !.bddRes = res]

\* RetValue was assigned by stage
NoteRet(h, stage) == [h EXCEPT !.retBy = stage]

\* the all-zero model was allocated at lines 208-209
NoteSynth(h, done) == [h EXCEPT !.synth = done]

\* a transformation op of the driver was applied and the constant check gave v
NoteOpt(op, v) ==
    [hist EXCEPT
        !.lastOpt = op,
        !.anyOpt = TRUE,
        !.drvApps = Bump(@),
        !.drvVerdict = IF v >= 0 /\ @ < 0 THEN v ELSE @,
        !.drvSawOne = @ \/ v = 0,
        !.lastCheck = v,
        !.retBy = "driver"]

\* the rewriting loop is entered: the per-invocation history starts afresh
NoteDriverStart(h) == [h EXCEPT !.drvApps = 0, !.lastOpt = "none"]

\* the step budget the rewriting loop starts with
NoteBudget(h, entered, budget) == IF entered THEN [h EXCEPT !.drvBudget = budget] ELSE h

\* ------------------------------------------------------------- Init
Init ==
    /\ pParams \in
          [fUseRewriting : BOOLEAN, fUseFraiging : BOOLEAN, fUseBdds : BOOLEAN,
           nItersMax : 0 .. DeepIters,
           nMiteringLimitStart : {100}, nMiteringLimitMulti : {<<2, 1>>},
           nRewritingLimitStart : {0, 3}, nRewritingLimitMulti : {<<1, 2>>},
           nFraigingLimitStart : {3}, nFraigingLimitMulti : {<<3, 2>>},
           nMiteringLimitLast : {50},
           nTotalBacktrackLimit : {0, 2}, nTotalInspectLimit : {0, 1, 3}]
    /\ pParams.nTotalBacktrackLimit = 0 \/ pParams.nTotalInspectLimit = 0
    /\ \E e \in {<<0, 0>>, <<1, 1>>} :
          /\ nTotalBacktracksMade = e[1]
          /\ nTotalInspectsMade = e[2]
    \* the zero rewriting budget is explored with rewriting on and no global limit
    /\ pParams.nRewritingLimitStart = 0 =>
          /\ pParams.fUseRewriting
          /\ pParams.nTotalBacktrackLimit = 0 /\ pParams.nTotalInspectLimit = 0
          /\ nTotalBacktracksMade = 0
    \* the longest runs are explored without global limits and without BDDs
    /\ pParams.nItersMax > MaxIters =>
          /\ ~pParams.fUseBdds
          /\ pParams.nRewritingLimitStart # 0
          /\ pParams.nTotalBacktrackLimit = 0 /\ pParams.nTotalInspectLimit = 0
          /\ nTotalBacktracksMade = 0
    /\ pc = "entry"
    /\ nIter = 0
    /\ RetValue = 0
    /\ retAssigned = FALSE
    /\ Counter = 0
    /\ pNtk = 0
    /\ live = {0}
    /\ nCi = NumCi
    /\ pModel \in [NtkIds -> {NullModel}]
    /\ ppNtk = 0
    /\ result = 0
    /\ hist = [last |-> NoCall, bt0 |-> 0, ins0 |-> 0, 
               nSat |-> 0, nFraig |-> 0, nBdd |-> 0, anyOpt |-> FALSE,
               usedConfs |-> 0, usedInsp |-> 0, incConfs |-> 0, incInsp |-> 0,
               entryBt |-> nTotalBacktracksMade, entryIns |-> nTotalInspectsMade,
               satVerdict |-> -1, lastOpt |-> "none", drvApps |-> 0,
               drvVerdict |-> -1, drvSawOne |-> FALSE, entryNtk |-> pNtk,
               fraigVerdict |-> -1, nFinal |-> 0, callIter |-> 0, lastCheck |-> -1,
               bddNtk |-> 0, bddRes |-> "none", retBy |-> "none", synth |-> FALSE,
               drvBudget |-> 0]

\* ------------------------------------------------------------- engines
\* Abc_NtkMiterSat: a verdict, the consumption, and a model on the network
\* when the verdict is Sat
SatAttach(ret, m) == IF ret = 0 THEN [pModel EXCEPT ![pNtk] = m] ELSE pModel

\* the end of the loop body: nIter++
NextIteration ==
    /\ nIter' = nIter + 1
    /\ pc' = "loop"

\* line 146: the fraiging stage, or the end of the loop body
AfterRewriting ==
    IF pParams.fUseFraiging
    THEN pc' = "fraig" /\ nIter' = nIter
    ELSE NextIteration

\* the return of -1 on a global limit
QuitOnLimit(ntk) ==
    /\ ppNtk' = ntk
    /\ result' = -1
    /\ pc' = "done"

\* ------------------------------------------------------------- actions
\* lines 79-87: SAT only, one attempt without iteration
SatOnly ==
    /\ pc = "entry"
    /\ SatOnlyMode
    /\ \E ret \in Verdicts, use \in Use, m \in EngineModels(nCi) :
          /\ pModel' = SatAttach(ret, m)
          /\ RetValue' = ret
          /\ result' = ret
          /\ hist' = NoteRet(NoteCall(Call("satonly", LastLimit, 0, ret, use[1], use[2]),
                                      nTotalBacktracksMade, nTotalInspectsMade), "satonly")
    /\ retAssigned' = TRUE
    /\ ppNtk' = pNtk
    /\ pc' = "done"
    /\ UNCHANGED <<pParams, nTotalBacktracksMade, nTotalInspectsMade, nIter, Counter,
                   pNtk, live, nCi>>

\* line 90, first entry: nIter = 0
EnterLoop ==
    /\ pc = "entry"
    /\ ~SatOnlyMode
    /\ nIter' = 0
    /\ pc' = "loop"
    /\ UNCHANGED <<pParams, nTotalBacktracksMade, nTotalInspectsMade, RetValue,
                   retAssigned, Counter, pNtk, live, pModel, nCi, ppNtk, result, hist>>

\* lines 100-124: the SAT attempt of an iteration, the totals, the limit check
IterSat ==
    /\ pc = "loop"
    /\ nIter < pParams.nItersMax
    /\ \E ret \in Verdicts, use \in Use, m \in EngineModels(nCi) :
          /\ pModel' = SatAttach(ret, m)
          /\ RetValue' = ret
          /\ IF ret >= 0
             THEN /\ pc' = "bdd"
                  /\ UNCHANGED <<nTotalBacktracksMade, nTotalInspectsMade, nIter, Counter,
                                 ppNtk, result>>
             ELSE /\ nTotalBacktracksMade' = AddUse(nTotalBacktracksMade, use[1])
                  /\ nTotalInspectsMade' = AddUse(nTotalInspectsMade, use[2])
                  /\ IF LimitReached(nTotalBacktracksMade', nTotalInspectsMade')
                     THEN QuitOnLimit(pNtk) /\ UNCHANGED <<nIter, Counter>>
                     ELSE /\ UNCHANGED <<ppNtk, result>>
                          /\ IF pParams.fUseRewriting
                             THEN /\ Counter' \in CastInt(StageLimit(pParams.nRewritingLimitStart,
                                                                     pParams.nRewritingLimitMulti, nIter))
                                  /\ pc' = "rewrite"
                                  /\ nIter' = nIter
                             ELSE AfterRewriting /\ UNCHANGED Counter
          /\ hist' = NoteBudget(NoteRet(NoteDriverStart(NoteCall(
                 Call("sat",
                      StageLimit(pParams.nMiteringLimitStart, pParams.nMiteringLimitMulti, nIter),
                      InspectLimit(pParams.nTotalInspectLimit, nTotalInspectsMade),
                      ret, use[1], use[2]),
                 nTotalBacktracksMade, nTotalInspectsMade)), "sat"),
                 pc' = "rewrite", Counter')
    /\ retAssigned' = TRUE
    /\ UNCHANGED <<pParams, pNtk, live, nCi>>

\* line 90: nIter < nItersMax fails; RetValue is read at line 173
LoopExit ==
    /\ pc = "loop"
    /\ ~(nIter < pParams.nItersMax)
    /\ IF retAssigned
       THEN RetValue' = RetValue
       ELSE RetValue' \in (-MaxGarbage) .. MaxGarbage
    /\ pc' = "bdd"
    /\ UNCHANGED <<pParams, nTotalBacktracksMade, nTotalInspectsMade, nIter, retAssigned,
                   Counter, pNtk, live, pModel, nCi, ppNtk, result, hist>>

\* after a transformation of the rewriting loop: the constant check, then
\* --Counter == 0 (lines 128-131, 133-136, 138-141)
CheckAndCount(op, nextPc) ==
    \E v \in Verdicts :
        /\ RetValue' = v
        /\ hist' = NoteOpt(op, v)
        /\ IF v >= 0
           THEN AfterRewriting /\ UNCHANGED Counter
           ELSE \/ /\ Counter' = Decrement(Counter)
                   /\ IF Counter' = 0
                      THEN AfterRewriting
                      ELSE pc' = nextPc /\ nIter' = nIter
                \/ /\ Overflows(Counter)
                   /\ pc' = "trap"
                   /\ UNCHANGED <<Counter, nIter>>

\* lines 127-131: Abc_NtkRewrite changes the network in place
RewriteStep ==
    /\ pc = "rewrite"
    /\ CheckAndCount("rewrite", "refactor")
    /\ UNCHANGED <<pParams, nTotalBacktracksMade, nTotalInspectsMade, retAssigned,
                   pNtk, live, pModel, nCi, ppNtk, result>>

\* refactor goes back to rewrite, balance is left out
RefactorStep_SkipsBalance ==
    /\ pc = "refactor"
    /\ CheckAndCount("refactor", "rewrite")
    /\ UNCHANGED <<pParams, nTotalBacktracksMade, nTotalInspectsMade, retAssigned,
                   pNtk, live, pModel, nCi, ppNtk, result>>

\* lines 132-136: Abc_NtkRefactor changes the network in place
RefactorStep ==
    /\ pc = "refactor"
    /\ CheckAndCount("refactor", "balance")
    /\ UNCHANGED <<pParams, nTotalBacktracksMade, nTotalInspectsMade, retAssigned,
                   pNtk, live, pModel, nCi, ppNtk, result>>

\* the old instance is kept when the new one replaces it
Replace_Leak(new, m) ==
    /\ pNtk' = new
    /\ live' = live \cup {new}
    /\ pModel' = [pModel EXCEPT ![new] = m]

\* a new instance replaces pNtk and the old one is deleted
Replace(new, m) ==
    /\ pNtk' = new
    /\ live' = (live \cup {new}) \ {pNtk}
    /\ pModel' = [pModel EXCEPT ![new] = m, ![pNtk] = NullModel]

\* lines 137-141: Abc_NtkBalance returns a new network, the old one is deleted
BalanceStep ==
    /\ pc = "balance"
    /\ Replace(NewNtk, NullModel)
    /\ CheckAndCount("balance", "rewrite")
    /\ UNCHANGED <<pParams, nTotalBacktracksMade, nTotalInspectsMade, retAssigned,
                   nCi, ppNtk, result>>

\* lines 146-168 with Abc_NtkMiterFraig (226-279): the fraiged network replaces
\* pNtk and carries the model of the fraig manager when the verdict is Sat
Fraig ==
    /\ pc = "fraig"
    /\ \E ret \in Verdicts, use \in Use, m \in EngineModels(nCi) :
          /\ Replace(NewNtk, IF ret = 0 THEN m ELSE NullModel)
          /\ RetValue' = ret
          /\ hist' = NoteRet(NoteCall(
                 Call("fraig",
                      StageLimit(pParams.nFraigingLimitStart, pParams.nFraigingLimitMulti, nIter),
                      InspectLimit(pParams.nTotalInspectLimit, nTotalInspectsMade),
                      ret, use[1], use[2]),
                 nTotalBacktracksMade, nTotalInspectsMade), "fraig")
          /\ IF ret >= 0
             THEN /\ pc' = "bdd"
                  /\ UNCHANGED <<nTotalBacktracksMade, nTotalInspectsMade, nIter, ppNtk, result>>
             ELSE /\ nTotalBacktracksMade' = AddUse(nTotalBacktracksMade, use[1])
                  /\ nTotalInspectsMade' = AddUse(nTotalInspectsMade, use[2])
                  /\ IF LimitReached(nTotalBacktracksMade', nTotalInspectsMade')
                     THEN QuitOnLimit(pNtk') /\ UNCHANGED nIter
                     ELSE NextIteration /\ UNCHANGED <<ppNtk, result>>
    /\ UNCHANGED <<pParams, retAssigned, Counter, nCi>>

\* the BDD stage entered whatever RetValue is
BddWanted_Always == pParams.fUseBdds

\* RetValue < 0 && pParams->fUseBdds
BddWanted == RetValue < 0 /\ pParams.fUseBdds

\* the collapsed network is deleted where none was returned
BddNull_Deletes ==
    /\ pNtk' = pNtk
    /\ live' = live \ {pNtk}
    /\ pModel' = [pModel EXCEPT ![pNtk] = NullModel]
    /\ RetValue' = RetValue

\* lines 187-188: no network came back, pNtk = pNtkTemp and nothing is deleted
BddNull ==
    /\ pNtk' = pNtk
    /\ live' = live
    /\ pModel' = pModel
    /\ RetValue' = RetValue

\* a network that is not the constant zero leaves RetValue at -1
BddVerdict_UnsatOnly(isZero) == IF isZero THEN 1 ELSE -1

\* line 185: RetValue = (one node && it is the constant zero)
BddVerdict(isZero) == IF isZero THEN 1 ELSE 0

\* lines 173-190: Abc_NtkCollapse returns no network (the size limit was hit)
\* or a new one, which replaces pNtk and sets RetValue
Bdd ==
    /\ pc = "bdd"
    /\ BddWanted
    /\ \/ /\ hist' = NoteBdd(NoteCall(Call("bdd", 0, 0, -1, 0, 0),
                                        nTotalBacktracksMade, nTotalInspectsMade),
                               pNtk, "null")
          /\ BddNull
       \/ \E isZero \in BOOLEAN :
             /\ Replace(NewNtk, NullModel)
             /\ RetValue' = BddVerdict(isZero)
             /\ hist' = NoteRet(NoteBdd(NoteCall(Call("bdd", 0, 0, RetValue', 0, 0),
                                                nTotalBacktracksMade, nTotalInspectsMade),
                                       pNtk, IF isZero THEN "zero" ELSE "other"), "bdd")
    /\ pc' = "final"
    /\ UNCHANGED <<pParams, nTotalBacktracksMade, nTotalInspectsMade, nIter, retAssigned,
                   Counter, nCi, ppNtk, result>>

\* line 173: the condition fails
BddSkip ==
    /\ pc = "bdd"
    /\ ~BddWanted
    /\ pc' = "final"
    /\ UNCHANGED <<pParams, nTotalBacktracksMade, nTotalInspectsMade, nIter, RetValue,
                   retAssigned, Counter, pNtk, live, pModel, nCi, ppNtk, result, hist>>

\* lines 192-203: the final SAT attempt with nMiteringLimitLast
FinalSat ==
    /\ pc = "final"
    /\ RetValue < 0
    /\ \E ret \in Verdicts, use \in Use, m \in EngineModels(nCi) :
          /\ pModel' = SatAttach(ret, m)
          /\ RetValue' = ret
          /\ hist' = NoteRet(NoteCall(
                 Call("final", LastLimit,
                      InspectLimit(pParams.nTotalInspectLimit, nTotalInspectsMade),
                      ret, use[1], use[2]),
                 nTotalBacktracksMade, nTotalInspectsMade), "final")
    /\ pc' = "assemble"
    /\ UNCHANGED <<pParams, nTotalBacktracksMade, nTotalInspectsMade, nIter, retAssigned,
                   Counter, pNtk, live, nCi, ppNtk, result>>

\* line 192: the condition fails
FinalSkip ==
    /\ pc = "final"
    /\ ~(RetValue < 0)
    /\ pc' = "assemble"
    /\ UNCHANGED <<pParams, nTotalBacktracksMade, nTotalInspectsMade, nIter, RetValue,
                   retAssigned, Counter, pNtk, live, pModel, nCi, ppNtk, result, hist>>

\* lines 205-212: the all-zero model when none is attached, and the return
Assemble ==
    /\ pc = "assemble"
    /\ pModel' = IF NeedsModel(RetValue, pModel[pNtk])
                 THEN [pModel EXCEPT ![pNtk] = ZeroModel(nCi)]
                 ELSE pModel
    /\ hist' = NoteSynth(hist, NeedsModel(RetValue, pModel[pNtk]))
    /\ ppNtk' = pNtk
    /\ result' = RetValue
    /\ pc' = "done"
    /\ UNCHANGED <<pParams, nTotalBacktracksMade, nTotalInspectsMade, nIter, RetValue,
                   retAssigned, Counter, pNtk, live, nCi>>

Next ==
    \/ SatOnly
    \/ EnterLoop
    \/ IterSat
    \/ LoopExit
    \/ RewriteStep
    \/ RefactorStep
    \/ BalanceStep
    \/ Fraig
    \/ Bdd
    \/ BddSkip
    \/ FinalSat
    \/ FinalSkip
    \/ Assemble

Spec == Init /\ [][Next]_vars

\* every step of the call is taken: the function runs until it returns
FairSpec == Spec /\ WF_vars(Next)

TypeOK ==
    /\ pc \in {"entry", "loop", "rewrite", "refactor", "balance", "fraig", "bdd",
                "final", "assemble", "done", "trap"}
    /\ Counter \in IntRange
    /\ pNtk \in live
    /\ nIter \in 0 .. pParams.nItersMax

\* ------------------------------------------------------------- properties
Returned == pc = "done"
Iterative == pParams.fUseRewriting \/ pParams.fUseFraiging

\* a step that invokes an engine
EngineStep ==
    SatOnly \/ IterSat \/ RewriteStep \/ RefactorStep \/ BalanceStep \/ Fraig \/ Bdd \/ FinalSat

\* C1: the value Abc_NtkMiterProve returns is -1, 0 or 1, for every parameter
\* configuration, the iteration cap 0 included.
C1_ReturnsTriState == Returned => result \in {-1, 0, 1}

\* C2: every call of Abc_NtkMiterProve eventually returns, a rewriting step
\* budget of 0 included.
C2_EventuallyReturns == <>Returned

\* C3: with neither rewriting nor fraiging enabled the call makes exactly one
\* SAT invocation, with nMiteringLimitLast, invokes no other engine, returns
\* the SAT result and hands back the network instance it was given.
C3_SatOnly ==
    (~pParams.fUseRewriting /\ ~pParams.fUseFraiging) =>
        /\ ~hist.anyOpt /\ hist.nFraig = 0 /\ hist.nBdd = 0
        /\ hist.nSat <= 1
        /\ Returned =>
              /\ hist.nSat = 1
              /\ hist.last.kind = "satonly"
              /\ hist.last.limit = pParams.nMiteringLimitLast
              /\ result = hist.last.ret
              /\ ppNtk = hist.entryNtk
              /\ live = {hist.entryNtk}

C3_Witness ==
    /\ ~pParams.fUseRewriting /\ ~pParams.fUseFraiging
    /\ Returned /\ result = 0 /\ hist.nSat = 1

\* C4: in iterative mode, once the SAT attempt of an iteration returns Sat or
\* Unsat no engine is invoked any more and the call returns that verdict; when
\* it is the first SAT attempt and returns Unsat, no optimization stage has run
\* and the running totals are those at entry.
C4_SatVerdictEnds ==
    /\ [][hist.satVerdict >= 0 => ~EngineStep]_vars
    /\ [](hist.satVerdict >= 0 /\ Returned => result = hist.satVerdict)
    /\ [](hist.satVerdict = 1 /\ hist.nSat = 1 =>
              /\ ~hist.anyOpt /\ hist.nFraig = 0 /\ hist.nBdd = 0
              /\ nTotalBacktracksMade = hist.entryBt
              /\ nTotalInspectsMade = hist.entryIns)

C4_Witness ==
    /\ Iterative /\ pParams.fUseBdds
    /\ Returned /\ result = 1 /\ hist.satVerdict = 1 /\ hist.nSat = 1

\* C5: after an inconclusive SAT or fraig invocation of an iteration its
\* consumption is in the running totals, and if a nonzero global ceiling is
\* then met or exceeded the call has returned Timeout with the current network:
\* nothing runs after that invocation.
C5_QuitOnCeiling ==
    (InLoop(hist.last) /\ hist.last.ret < 0) =>
        /\ nTotalBacktracksMade = hist.bt0 + hist.last.confs
        /\ nTotalInspectsMade = hist.ins0 + hist.last.insp
        /\ ( \/ /\ pParams.nTotalBacktrackLimit # 0
                /\ nTotalBacktracksMade >= pParams.nTotalBacktrackLimit
             \/ /\ pParams.nTotalInspectLimit # 0
                /\ nTotalInspectsMade >= pParams.nTotalInspectLimit )
           => /\ Returned /\ result = -1 /\ ppNtk = pNtk
              /\ ~ENABLED Next

\* probe ceiling 1, a fraig call that consumed 2 probes, Timeout right after it
C5_Witness ==
    /\ pParams.nTotalInspectLimit = 1
    /\ hist.last.kind = "fraig" /\ hist.last.ret < 0 /\ hist.last.insp = 2
    /\ hist.ins0 = 0
    /\ Returned /\ result = -1 /\ hist.nBdd = 0

\* C6 as stated: at return the increase of each running total is the sum of the
\* consumption of every SAT and fraig invocation of the call.
C6_AllCallsCounted ==
    Returned =>
        /\ nTotalBacktracksMade - hist.entryBt = hist.usedConfs
        /\ nTotalInspectsMade - hist.entryIns = hist.usedInsp

\* C6 as amended: the increase of each running total is the sum of the
\* consumption of the SAT and fraig invocations of the iterations that returned
\* inconclusive; a conclusive invocation, the SAT-only attempt and the final
\* SAT attempt add nothing.
C6_InconclusiveCounted ==
    /\ nTotalBacktracksMade - hist.entryBt = hist.incConfs
    /\ nTotalInspectsMade - hist.entryIns = hist.incInsp

C6_Witness ==
    /\ Returned
    /\ hist.incConfs > 0
    /\ hist.usedConfs > hist.incConfs
    /\ hist.last.kind = "final"

\* C7: neither running total decreases in any step of the call, so at return
\* both are at least their values at entry.
C7_TotalsMonotone ==
    /\ [][/\ nTotalBacktracksMade' >= nTotalBacktracksMade
          /\ nTotalInspectsMade' >= nTotalInspectsMade]_vars
    /\ [](/\ nTotalBacktracksMade >= hist.entryBt
          /\ nTotalInspectsMade >= hist.entryIns)

C7_Witness ==
    /\ Returned
    /\ hist.entryBt = 1
    /\ nTotalBacktracksMade > hist.entryBt
    /\ nTotalInspectsMade > hist.entryIns

\* C8: once the rewriting loop has seen the constant check return 0 or 1, no
\* fraig invocation and no SAT attempt of an iteration follows, and the call
\* returns that verdict.
C8_DriverVerdictEnds ==
    /\ [][hist.drvVerdict >= 0 => ~(Fraig \/ IterSat)]_vars
    /\ [](hist.drvVerdict >= 0 /\ Returned => result = hist.drvVerdict)

\* C9: with rewriting enabled and fraiging disabled, whenever the rewriting
\* loop saw Abc_NtkMiterIsConstant return 0, the call returns Sat and the
\* returned network carries the all-zero model.
C9_ConstOneGivesSat ==
    (Returned /\ pParams.fUseRewriting /\ ~pParams.fUseFraiging /\ hist.drvSawOne) =>
        /\ result = 0
        /\ pModel[ppNtk] = ZeroModel(nCi)

\* C10: whenever the call returns 0 the network handed back is live and carries
\* a non-null model with one value per combinational input.
C10_SatHasModel ==
    (Returned /\ result = 0) =>
        /\ ppNtk \in live
        /\ ~pModel[ppNtk].isNull
        /\ Len(pModel[ppNtk].vals) = nCi

\* Sat found by the rewriting loop alone: the model is the all-zero one
C10_Witness ==
    /\ Returned /\ result = 0
    /\ hist.drvSawOne /\ hist.nSat = 1 /\ hist.nFraig = 0 /\ hist.nBdd = 0
    /\ pModel[ppNtk] = ZeroModel(nCi)

\* C11: when Abc_NtkCollapse returns no network, the network it was called on
\* is not deleted and stays the live instance, no verdict is recorded, and
\* exactly one final SAT attempt on that network follows, whose result is the
\* value the call returns.
C11_BddNullFallsThrough ==
    hist.bddRes = "null" =>
        /\ pNtk = hist.bddNtk
        /\ live = {hist.bddNtk}
        /\ pc = "final" => RetValue < 0 /\ hist.nFinal = 0
        /\ pc \in {"assemble", "done"} =>
              /\ hist.nFinal = 1
              /\ hist.last.kind = "final"
              /\ RetValue = hist.last.ret
        /\ Returned => result = hist.last.ret /\ ppNtk = hist.bddNtk

C11_Witness ==
    /\ hist.bddRes = "null"
    /\ Returned /\ result = 0 /\ hist.nFinal = 1
    /\ hist.bddNtk # hist.entryNtk

\* C12 as stated: a collapse that gives the single constant-zero node yields
\* Unsat, and any other successfully built result leaves the outcome
\* inconclusive: the final SAT attempt with nMiteringLimitLast is still made
\* and its result returned, the BDD stage never producing Sat.
C12_BddUnsatOnly ==
    /\ (hist.bddRes = "zero" /\ Returned) => result = 1
    /\ (hist.bddRes = "other" /\ Returned) =>
          /\ hist.nFinal = 1
          /\ hist.last.kind = "final"
          /\ hist.last.limit = pParams.nMiteringLimitLast
          /\ result = hist.last.ret

\* C12 as amended: a successful collapse always concludes: Unsat (1) for the
\* single constant-zero node and Sat (0) for any other result, and no final SAT
\* attempt follows it; only a collapse that returns no network leaves the
\* outcome inconclusive.
C12_BddDecides ==
    /\ hist.bddRes \in {"zero", "other"} =>
          /\ RetValue = (IF hist.bddRes = "zero" THEN 1 ELSE 0)
          /\ hist.nFinal = 0
          /\ hist.last.kind = "bdd"
          /\ Returned => result = RetValue
    /\ (hist.bddRes = "null" /\ pc = "final") => RetValue < 0

C12_Witness ==
    /\ hist.bddRes = "other"
    /\ Returned /\ result = 0 /\ hist.nFinal = 0

\* C13: the all-zero model is allocated at the end of the call only when the
\* Sat verdict came from the rewriting loop seeing the constant check return
\* 0, and a Sat verdict from any other source carries the model of an engine.
C13_SynthOnlyAfterRewriting ==
    /\ hist.synth => (hist.retBy = "driver" /\ hist.lastCheck = 0)
    /\ (Returned /\ result = 0 /\ hist.retBy # "driver") =>
          (~hist.synth /\ hist.retBy \in {"satonly", "sat", "fraig", "final"})

\* the call returned -1 from inside the loop, on a global limit
QuitInLoop == Returned /\ InLoop(hist.last) /\ hist.last.ret < 0

\* no stage has produced a verdict: no SAT or fraig call of an iteration was
\* conclusive, the rewriting loop saw no constant and no collapse succeeded
NoVerdictYet ==
    /\ hist.satVerdict < 0
    /\ hist.fraigVerdict < 0
    /\ hist.drvVerdict < 0
    /\ hist.bddRes \in {"none", "null"}

\* C14: when the loop ends with no stage having produced a verdict (the
\* iteration cap 0 included) and the BDD stage is off or gave no network,
\* exactly one final SAT attempt is made, with nMiteringLimitLast, and its
\* result is the value the call returns.
C14_FinalSatOnce ==
    (Returned /\ Iterative /\ ~QuitInLoop /\ NoVerdictYet) =>
        /\ hist.nFinal = 1
        /\ hist.last.kind = "final"
        /\ hist.last.limit = pParams.nMiteringLimitLast
        /\ result = hist.last.ret

\* C20: the call returns 1 only if a stage set that verdict: a SAT or fraig
\* call returned 1, the constant check of the rewriting loop returned 1, or a
\* collapse gave the single constant-zero node; the iteration cap 0 included.
C20_UnsatHasSource ==
    (Returned /\ result = 1) =>
        \/ hist.retBy \in {"satonly", "sat", "fraig", "final"} /\ hist.last.ret = 1
        \/ hist.retBy = "driver" /\ hist.lastCheck = 1
        \/ hist.retBy = "bdd" /\ hist.bddRes = "zero"

\* v is start * (num/den)^i truncated toward zero (all values non-negative)
IsTruncated(v, start, multi, i) ==
    /\ v * (multi[2] ^ i) <= start * (multi[1] ^ i)
    /\ start * (multi[1] ^ i) < (v + 1) * (multi[2] ^ i)

InDriver == pc \in {"rewrite", "refactor", "balance"}

\* C15: in iteration i the SAT conflict limit, the rewriting step budget and
\* the fraig backtrack limit are start * factor^i truncated toward zero for
\* their schedules; start 100 and factor 2 give 100, 200, 400 in iterations
\* 0, 1, 2.
C15_GeometricSchedule ==
    /\ hist.last.kind = "sat" =>
          /\ IsTruncated(hist.last.limit, pParams.nMiteringLimitStart,
                         pParams.nMiteringLimitMulti, hist.callIter)
          /\ (pParams.nMiteringLimitStart = 100 /\ pParams.nMiteringLimitMulti = <<2, 1>>
               /\ hist.callIter <= 2)
                 => hist.last.limit = <<100, 200, 400>>[hist.callIter + 1]
    /\ hist.last.kind = "fraig" =>
          IsTruncated(hist.last.limit, pParams.nFraigingLimitStart,
                      pParams.nFraigingLimitMulti, hist.callIter)
    /\ InDriver =>
          /\ IsTruncated(hist.drvBudget, pParams.nRewritingLimitStart,
                         pParams.nRewritingLimitMulti, nIter)
          /\ hist.drvApps = 0 => Counter = hist.drvBudget

\* the third SAT attempt of a schedule 100, 2.0
C15_Witness ==
    /\ hist.last.kind = "sat" /\ hist.callIter = 2 /\ hist.last.limit = 400
    /\ pc = "rewrite" /\ hist.drvBudget = 0 /\ pParams.nRewritingLimitStart = 3

\* C16: at every point of a proof call, and at every return (the normal one
\* and the two Timeout returns on a global limit), exactly one network instance
\* is live and it is the one pNtk designates, so no adapter is handed a deleted
\* instance; the instances superseded by balance, fraig or a BDD collapse are
\* gone, and at return *ppNtk designates the live instance.
C16_OneLiveNetwork ==
    /\ live = {pNtk}
    /\ \A n \in NtkIds \ live : pModel[n] = NullModel
    /\ Returned => ppNtk = pNtk /\ live = {ppNtk}

\* a Timeout return out of the fraig stage after balance replaced the network
C16_Witness ==
    /\ QuitInLoop /\ result = -1
    /\ hist.last.kind = "fraig" /\ hist.lastOpt = "balance"
    /\ live = {ppNtk}

\* the rewriting loop of the current iteration has been left without a verdict
DriverExhausted ==
    /\ pc = (IF pParams.fUseFraiging THEN "fraig" ELSE "loop")
    /\ hist.lastOpt # "none"
    /\ hist.lastCheck < 0

NextInRotation(op) ==
    CASE op = "none" -> "rewrite"
      [] op = "rewrite" -> "refactor"
      [] op = "refactor" -> "balance"
      [] op = "balance" -> "rewrite"

\* C18: within one run of the rewriting loop the transformations come in the
\* rotation rewrite, refactor, balance, rewrite, ...; every application is
\* followed by a constant check whose value is in RetValue; once a check
\* reports a constant the loop is left with that value and no transformation
\* is applied until the loop is entered again.
C18_Rotation ==
    /\ [][InDriver =>
             /\ hist'.lastOpt = NextInRotation(hist.lastOpt)
             /\ hist'.lastOpt = pc
             /\ hist'.drvApps = Bump(hist.drvApps)
             /\ RetValue' = hist'.lastCheck
             /\ hist'.lastCheck >= 0 => ~InDriver']_vars
    /\ [][~InDriver =>
             /\ hist'.lastOpt \in {hist.lastOpt, "none"}
             /\ hist'.drvApps \in {hist.drvApps, 0}]_vars

\* the third application, balance, finds the constant zero: verdict Unsat
C18_Witness ==
    /\ ~InDriver /\ pc # "trap"
    /\ hist.lastOpt = "balance" /\ hist.drvApps = 3
    /\ hist.lastCheck = 1 /\ RetValue = 1

\* C19: in iterative mode with a nonzero global probe ceiling, the SAT attempt
\* of an iteration, the fraig invocation and the final SAT attempt are each
\* given the ceiling minus the running probe total as their probe limit, and
\* that limit is strictly positive, whatever the running totals were at entry.
C19_ProbeLimitPositive ==
    ( /\ Iterative
      /\ pParams.nTotalInspectLimit # 0
      /\ hist.last.kind \in {"sat", "fraig", "final"} ) =>
        /\ hist.last.inspLimit = pParams.nTotalInspectLimit - hist.ins0
        /\ hist.last.inspLimit > 0
====
